---- MODULE Spec2Model ----
(***************************************************************************)
(* Model of the audio-visualizer background tasks:                         *)
(*   - the spectrum analysis task (src/utils/spectrumWorker.ts),           *)
(*   - the spectrum and waveform draw tasks (workers/spectrumDrawer.ts,    *)
(*     workers/waveformDrawer.ts),                                         *)
(*   - the Spectrum and Waveform host components that drive the draw tasks.*)
(*                                                                         *)
(* Numbers.  The code computes with IEEE doubles; the quantities that      *)
(* decide control flow (numSlices, samplesPerSlice, startSample, ...) can  *)
(* be NaN or +-Infinity (a zero timeSlice gives an infinite numSlices).    *)
(* They are carried as records [k, v]: Num(i), NaN, PosInf, NegInf, with   *)
(* the JavaScript rules for +, *, /, Math.min, Math.max and comparison.    *)
(* Times (duration, timeSlice) are counted in units of 1/TimeDen second.   *)
(***************************************************************************)
EXTENDS Integers, Sequences, FiniteSets, TLC

(***************************************************************************)
(* Extended numbers                                                        *)
(***************************************************************************)
Num(i) == [k |-> "num", v |-> i]

NaN == [k |-> "nan", v |-> 0]

PosInf == [k |-> "inf", v |-> 1]

NegInf == [k |-> "inf", v |-> -1]

IsNum(x) == x.k = "num"

IsNaN(x) == x.k = "nan"

IsInf(x) == x.k = "inf"

Sign(x) == IF x.v > 0 THEN 1 ELSE IF x.v < 0 THEN -1 ELSE 0

InfOfSign(s) == IF s > 0 THEN PosInf ELSE NegInf

\* a + b
EAdd(a, b) ==
  IF IsNaN(a) \/ IsNaN(b) THEN NaN
  ELSE IF IsInf(a) /\ IsInf(b) THEN (IF a = b THEN a ELSE NaN)
  ELSE IF IsInf(a) THEN a
  ELSE IF IsInf(b) THEN b
  ELSE Num(a.v + b.v)

\* a * b
EMul(a, b) ==
  IF IsNaN(a) \/ IsNaN(b) THEN NaN
  ELSE IF IsInf(a) \/ IsInf(b)
       THEN (IF Sign(a) = 0 \/ Sign(b) = 0 THEN NaN ELSE InfOfSign(Sign(a) * Sign(b)))
  ELSE Num(a.v * b.v)

\* a <= b, false as soon as one side is NaN
ELe(a, b) ==
  /\ ~IsNaN(a)
  /\ ~IsNaN(b)
  /\ \/ a = NegInf
     \/ b = PosInf
     \/ IsNum(a) /\ IsNum(b) /\ a.v <= b.v

\* a < b
ELt(a, b) == ELe(a, b) /\ a # b

\* Math.min(a, b)
EMin(a, b) == IF IsNaN(a) \/ IsNaN(b) THEN NaN ELSE IF ELe(a, b) THEN a ELSE b

\* Math.max(a, b)
EMax(a, b) == IF IsNaN(a) \/ IsNaN(b) THEN NaN ELSE IF ELe(a, b) THEN b ELSE a

\* ceil(p / q) for integers p, q with q > 0
CeilDivInt(p, q) == -((-p) \div q)

\* Math.ceil(a / b)
ECeilDiv(a, b) ==
  IF IsNaN(a) \/ IsNaN(b) THEN NaN
  ELSE IF IsInf(a) THEN (IF IsInf(b) THEN NaN
                         ELSE InfOfSign(Sign(a) * (IF Sign(b) < 0 THEN -1 ELSE 1)))
  ELSE IF IsInf(b) THEN Num(0)
  ELSE IF b.v = 0 THEN (IF a.v = 0 THEN NaN ELSE InfOfSign(Sign(a)))
  ELSE IF b.v > 0 THEN Num(CeilDivInt(a.v, b.v))
  ELSE Num(CeilDivInt(-a.v, -b.v))

\* Math.floor(a / q) for an integer q > 0
EFloorDiv(a, q) == IF IsNum(a) THEN Num(a.v \div q) ELSE a

\* -a
ENeg(a) == IF IsNum(a) THEN Num(-a.v) ELSE IF IsInf(a) THEN InfOfSign(-a.v) ELSE NaN

\* a - b
ESub(a, b) == EAdd(a, ENeg(b))

(***************************************************************************)
(* FFT kernel (spectrumWorker.ts, lines 33-140)                            *)
(*                                                                         *)
(* A signal is a sequence of extended numbers, index 1 holding the code's  *)
(* element 0.  A complex array is a sequence of pairs <<re, im>>.          *)
(* Scaling: the Hann weights are carried in quarters (weight * 4), the     *)
(* downmix as the sum over the channels (average * channel count), and a   *)
(* magnitude as its square times n^2 (re^2 + im^2): the code's value is a  *)
(* strictly increasing function of the carried one that maps 0 to 0.       *)
(***************************************************************************)
\* outcome of a call that may throw
Return(v) == [ok |-> TRUE, val |-> v, err |-> ""]

Throw(e) == [ok |-> FALSE, val |-> << >>, err |-> e]

\* A local constant of the code is evaluated once, where it is declared:
\* "CHOOSE r \in {e(a) : a \in {v}} : TRUE" is e of the value of v.
RECURSIVE BitAnd(_, _)
\* a & b, for a >= 0 (b = -1 only when a = 0)
BitAnd(a, b) ==
  IF a = 0 \/ b = 0 THEN 0
  ELSE (IF a % 2 = 1 /\ b % 2 = 1 THEN 1 ELSE 0) + 2 * BitAnd(a \div 2, b \div 2)

\* magnitude(real, imag), carried squared: real^2 + imag^2
magnitude(real, imag) == EAdd(EMul(real, real), EMul(imag, imag))

\* 4 * 0.5 * (1 - cos(2*pi*i/(n-1))), i counted from 0: exact where the
\* cosine is rational (n <= 5, n = 7), rounded to the nearest quarter for
\* n = 6; for n = 1 the quotient i/(n-1) is 0/0 and the weight is NaN.
HannQuarters(i, n) ==
  CASE n = 1 -> NaN
    [] n = 2 -> Num(0)
    [] n = 3 -> Num(<<0, 4, 0>>[i + 1])
    [] n = 4 -> Num(<<0, 3, 3, 0>>[i + 1])
    [] n = 5 -> Num(<<0, 2, 4, 2, 0>>[i + 1])
    [] n = 6 -> Num(<<0, 1, 4, 4, 1, 0>>[i + 1])
    [] n = 7 -> Num(<<0, 1, 3, 4, 3, 1, 0>>[i + 1])

\* applyHannWindow(signal): a new array, the input is not written
applyHannWindow(signal) ==
  CHOOSE r \in
    {SubSeq([i \in 1..Len(s) |-> EMul(s[i], HannQuarters(i - 1, Len(s)))], 1, Len(s)) :
       s \in {signal}} : TRUE

\* the exchange of elements i and j (0-based) of a complex array
Swap(arr, i, j) ==
  CHOOSE r \in
    {SubSeq([x \in 1..Len(a) |-> IF x = i + 1 THEN a[j + 1]
                                 ELSE IF x = j + 1 THEN a[i + 1] ELSE a[x]],
            1, Len(a)) :
       a \in {arr}} : TRUE

RECURSIVE ReduceJ(_, _)
\* the inner while loop of the reordering: returns <<j, k>> after it
ReduceJ(j, k) == IF k >= 1 /\ k <= j THEN ReduceJ(j - k, k \div 2) ELSE <<j, k>>

RECURSIVE BitReverseLoop_AlwaysSwap(_, _, _, _)
\* mutant: the exchange is made for every index, not only when i < j
BitReverseLoop_AlwaysSwap(arr, i, j, n) ==
  IF ~(i < n - 1) THEN arr
  ELSE LET swapped == Swap(arr, i, j)
           jk == ReduceJ(j, n \div 2)
       IN BitReverseLoop_AlwaysSwap(swapped, i + 1, jk[1] + jk[2], n)

RECURSIVE BitReverseLoop(_, _, _, _)
\* the first loop of performFFT, from index i with running index j
BitReverseLoop(arr, i, j, n) ==
  IF ~(i < n - 1) THEN arr
  ELSE LET swapped == IF i < j THEN Swap(arr, i, j) ELSE arr
           jk == ReduceJ(j, n \div 2)
       IN BitReverseLoop(swapped, i + 1, jk[1] + jk[2], n)

\* <<cos t, sin t>> for t = -2*pi*j/m, for the angles a transform of size
\* up to 4 uses (0 and -pi/2)
Twiddle(j, m) ==
  CASE j = 0 -> <<1, 0>>
    [] 4 * j = m -> <<0, -1>>

\* one butterfly on elements idx1 and idx2 (0-based)
Butterfly(arr, idx1, idx2, cs) ==
  CHOOSE r \in
    {LET c == Num(cs[1])
         s == Num(cs[2])
         tReal == ESub(EMul(a[idx2 + 1][1], c), EMul(a[idx2 + 1][2], s))
         tImag == EAdd(EMul(a[idx2 + 1][1], s), EMul(a[idx2 + 1][2], c))
     IN SubSeq([x \in 1..Len(a) |->
                  IF x = idx2 + 1
                  THEN <<ESub(a[idx1 + 1][1], tReal), ESub(a[idx1 + 1][2], tImag)>>
                  ELSE IF x = idx1 + 1
                  THEN <<EAdd(a[idx1 + 1][1], tReal), EAdd(a[idx1 + 1][2], tImag)>>
                  ELSE a[x]],
               1, Len(a)) :
       a \in {arr}} : TRUE

RECURSIVE ButterflyLoop(_, _, _, _, _)
\* the three nested loops of performFFT, from stage m, block i, offset j
ButterflyLoop(arr, n, m, i, j) ==
  IF ~(m <= n) THEN arr
  ELSE IF ~(i < n) THEN ButterflyLoop(arr, n, m * 2, 0, 0)
  ELSE IF ~(j < m \div 2) THEN ButterflyLoop(arr, n, m, i + m, 0)
  ELSE ButterflyLoop(Butterfly(arr, i + j, i + j + m \div 2, Twiddle(j, m)), n, m, i, j + 1)

\* performFFT(real, imag, n) on the complex array arr
performFFT(arr, n) == ButterflyLoop(BitReverseLoop(arr, 0, 0, n), n, 2, 0, 0)

\* computeFFT(signal)
computeFFT(signal) ==
  CHOOSE r \in
    {LET n == Len(sig)
     IN IF BitAnd(n, n - 1) # 0 THEN Throw("FFT size must be a power of 2")
        ELSE IF n % 2 # 0 THEN Throw("Invalid array length")
        ELSE CHOOSE m \in
               {Return(SubSeq([i \in 1..(n \div 2) |-> magnitude(out[i][1], out[i][2])],
                              1, n \div 2)) :
                  out \in {performFFT(SubSeq([i \in 1..n |-> <<sig[i], Num(0)>>], 1, n),
                                      n)}} : TRUE :
       sig \in {signal}} : TRUE

Min(a, b) == IF a <= b THEN a ELSE b

Max(a, b) == IF a >= b THEN a ELSE b

\* element i (0-based) of a typed array: undefined outside it, and undefined
\* is NaN as soon as it is added
At(arr, i) == IF i + 1 <= Len(arr) THEN arr[i + 1] ELSE NaN

RECURSIVE SumChannels(_, _, _)
\* sum over the channels c..last of sample i: the inner loop of the downmix
SumChannels(channelData, i, c) ==
  IF c > Len(channelData) THEN Num(0)
  ELSE EAdd(At(channelData[c], i), SumChannels(channelData, i, c + 1))

\* the uniform gain 2.0, on the squared magnitude
uniformGain(mag) == EMul(mag, Num(4))

\* mutant: Math.log10(1 + mag * 25) whatever mag is
logCompress_NoGuard(mag) == mag

\* mag > 0 ? Math.log10(1 + mag * 25) : 0, carried as its argument
logCompress(mag) == IF ELt(Num(0), mag) THEN mag ELSE Num(0)

\* new Array(n).fill(0)
ZeroFrame(n) == SubSeq([i \in 1..n |-> Num(0)], 1, n)

\* the try block of analyzeAudioSlice
analyzeAudioSliceTry(channelData, size) ==
  CHOOSE r \in
    {IF Len(cd) = 0 THEN Throw("TypeError")
     ELSE LET combinedChannelData ==
                IF Len(cd) > 1
                THEN SubSeq([i \in 1..Len(cd[1]) |-> SumChannels(cd, i - 1, 1)],
                            1, Len(cd[1]))
                ELSE cd[1]
              dataForFFT ==
                CHOOSE d \in
                  {SubSeq([i \in 1..size |->
                             IF i <= Min(Len(combined), size) THEN combined[i] ELSE Num(0)],
                          1, size) :
                     combined \in {combinedChannelData}} : TRUE
          IN CHOOSE m \in
               {IF ~magnitudes.ok THEN magnitudes
                ELSE Return(SubSeq([i \in 1..Len(magnitudes.val) |->
                                      logCompress(uniformGain(magnitudes.val[i]))],
                                   1, Len(magnitudes.val))) :
                  magnitudes \in {computeFFT(applyHannWindow(dataForFFT))}} : TRUE :
       cd \in {channelData}} : TRUE

\* mutant: the catch block raises the fault again
analyzeAudioSliceCatch_Rethrow(size) == Throw("rethrown")

\* mutant: the catch block returns one zero for each sample of the transform
analyzeAudioSliceCatch_FullSize(size) == Return(ZeroFrame(size))

\* the catch block of analyzeAudioSlice: new Array(fftSize / 2).fill(0)
analyzeAudioSliceCatch(size) ==
  IF size % 2 # 0 THEN Throw("Invalid array length")
  ELSE Return(ZeroFrame(size \div 2))

\* analyzeAudioSlice(channelData, sampleRate, fftSize)
analyzeAudioSlice(channelData, size) ==
  CHOOSE r \in
    {IF tried.ok THEN tried ELSE analyzeAudioSliceCatch(size) :
       tried \in {analyzeAudioSliceTry(channelData, size)}} : TRUE

(***************************************************************************)
(* Bounds and inputs of the analysis task                                  *)
(***************************************************************************)
\* a time value t stands for t / TimeDen seconds
TimeDen == 2

\* cap on the number of loop iterations of one analysis; every finite
\* numSlices of the inputs is below it, so only a loop that would never end
\* reaches it
MaxIter == 104

\* the fixed transform size of analyzeSpectrum (4096 in the source; 4 here,
\* the largest size whose twiddle factors are rational)
FftSize == 4

\* progressInterval = max(1, floor(numSlices / 20))
ProgressDivisor == 20

\* the analyzer yields when sliceIndex % 50 = 0
YieldEvery == 50

\* sample k (1-based) of a test buffer
PatternValue(pattern, k) ==
  CASE pattern = "ramp" -> Num(k)
    [] pattern = "ones" -> Num(1)
    [] pattern = "neg" -> Num(-1)
    [] pattern = "spoiled" -> <<Num(1), Num(2), NaN, Num(-2), NegInf, PosInf>>[k]

Buffer(pattern, len) == [k \in 1..len |-> PatternValue(pattern, k)]

BufferLens == {0, 3, 6}

\* the channel buffers of a request: none, mono, stereo, stereo with a
\* shorter second channel
AudioSets ==
  {<< >>}
    \cup {<<Buffer("ramp", l)>> : l \in BufferLens}
    \cup {<<Buffer("ones", l), Buffer("neg", l)>> : l \in BufferLens}
    \cup {<<Buffer("ramp", l), Buffer("ones", Max(l - 1, 0))>> : l \in BufferLens}

Request(type, audioData, sampleRate, duration, timeSlice, channels) ==
  [type |-> type, audioData |-> audioData, sampleRate |-> sampleRate,
   duration |-> duration, timeSlice |-> timeSlice, channels |-> channels]

\* requests with few slices, over every shape of the numeric fields
SmallRequests ==
  {Request("analyzeSpectrum", a, sr, d, ts, c) :
     a \in AudioSets,
     sr \in {Num(0), Num(3), Num(4), NaN, PosInf},
     d \in {Num(0), Num(1), Num(3), Num(5), PosInf},
     ts \in {Num(0), Num(1), Num(2), Num(-1)},
     c \in 0..3}

\* requests with many slices: 20, 21, 39, 40, 41, 59 and 60 slices
\* (progressInterval 1, 1, 1, 2, 2, 2, 3) and 102 slices (three yields), two
\* samples per slice
LongRequests ==
  {Request("analyzeSpectrum", <<Buffer("ramp", d)>>, Num(2), Num(d), Num(2), 1) :
     d \in {40, 42, 78, 80, 82, 118, 120, 204}}

\* a message of another type, and a message whose data is null
OtherRequests ==
  {Request("other", << >>, Num(0), Num(0), Num(0), 0),
   Request("null", << >>, Num(0), Num(0), Num(0), 0)}

\* requests whose slices are longer than the transform size, but for the
\* last one: five samples per slice of buffers of six samples
WideRequests ==
  {Request("analyzeSpectrum", a, Num(5), d, Num(2), c) :
     a \in AudioSets, d \in {Num(3), Num(5)}, c \in 1..2}

\* requests whose buffers hold samples that are not valid numbers
SpoiledRequests ==
  {Request("analyzeSpectrum", a, sr, Num(5), Num(2), Len(a)) :
     a \in {<<Buffer("spoiled", 6)>>, <<Buffer("spoiled", 6), Buffer("ones", 6)>>},
     sr \in {Num(2), Num(3), Num(4)}}

Requests ==
  SmallRequests \cup LongRequests \cup WideRequests \cup SpoiledRequests \cup OtherRequests

\* the transform sizes of the specification that leaves the size open
FftSizes == {FftSize, 3, 6}

(***************************************************************************)
(* State                                                                   *)
(***************************************************************************)
VARIABLES
  pc,            \* analysis task: "idle", "running", "yielded", "done"
  request,       \* the message the listener was called with
  fftSize,       \* the transform size analyzeSpectrum uses
  sliceIndex,    \* the loop variable of analyzeSpectrum
  spectrumData,  \* the grid under construction
  posted,        \* the messages the analysis task has posted, in order
  uncaught,      \* TRUE once a fault left the listener uncaught
  callerData,    \* the channel buffers of the request as memory holds them now
  sched,         \* slices processed since the last suspension; the message waiting
                 \* at the task and the slices processed since it arrived
  drawKind,        \* the draw task looked at: "spectrum" or "waveform"
  offscreenCanvas, \* draw task: the surface it holds, "none" or "held"
  ctx,             \* draw task: its 2D context, "none" or "ready"
  handled,         \* draw task: what each handled message did, in order
  toTask,          \* messages posted by the host component, not yet handled
  toHost,          \* messages posted by the draw task, not yet handled
  host,            \* the state of the host component
  signal,          \* the argument of a call of computeFFT on its own
  kernelOut,       \* the outcome of that call
  reorder,         \* the reordering step of performFFT on its own: the array
                   \* before, the array now, the number of times it was applied
  renderIn,        \* the 'draw' message of a render looked at on its own
  rectsOut,        \* the rectangles that render filled
  magnitudeIn,     \* the argument of a call of getSignalColor, in thousandths
  colorOut,        \* the colour that call returned
  caller,          \* the owner of the analysis task: what it has received
  second,          \* a second analysis started while the first is suspended
  player           \* the App component: its audio state and its playback refs

analysisVars ==
  <<pc, request, fftSize, sliceIndex, spectrumData, posted, uncaught, callerData, sched>>

\* no slice processed since the last suspension, no message waiting
NothingWaiting == [sinceYield |-> 0, pending |-> FALSE, waited |-> 0, served |-> FALSE]

taskVars == <<offscreenCanvas, ctx, handled>>

drawVars == <<drawKind, taskVars, toTask, toHost, host>>

\* the functions called on their own: their argument and their outcome
pureVars == <<signal, kernelOut, reorder, renderIn, rectsOut, magnitudeIn, colorOut>>

\* the parties around the tasks
sessionVars == <<caller, second, player>>

vars == <<analysisVars, drawVars, pureVars, sessionVars>>

\* a data field of a message or a property: absent, or an array of rows
Missing == [present |-> FALSE, rows |-> << >>]

Data(rows) == [present |-> TRUE, rows |-> rows]

\* the host component before it is mounted (useState defaults, part_005
\* lines 77-87 and Waveform.tsx lines 25-39); transfers, drawsPosted and
\* drawsAcked count the 'canvas' and 'draw' messages it has posted and the
\* answers to 'draw' it has received
HostUnmounted(kind) ==
  [mounted |-> FALSE, browserSupported |-> TRUE, workerInitialized |-> FALSE,
   offscreenCanvasRef |-> FALSE, data |-> Data(<< >>), containerWidth |-> 0,
   showChannels |-> "combined", isLoading |-> (kind = "spectrum"),
   waveformDrawn |-> FALSE, error |-> FALSE,
   transfers |-> 0, drawsPosted |-> 0, drawsAcked |-> 0]

\* the fields of a 'draw' message that place the rectangles
RenderData(grid, width, height, padding) ==
  [spectrumData |-> grid, width |-> width, height |-> height, padding |-> padding]

NoRender == RenderData(<< >>, 0, 0, [top |-> 0, right |-> 0, bottom |-> 0, left |-> 0])

NotRendered == [done |-> FALSE, rects |-> {}]

NoColor == [done |-> FALSE, rgb |-> <<0, 0, 0>>]

\* no call has been made yet
NotCalled == [ok |-> FALSE, val |-> << >>, err |-> "not called"]

\* no function is called on its own
\* the caller has received nothing and has not terminated the task
CallerWaiting == [received |-> 0, progress |-> Missing, result |-> Missing, terminated |-> FALSE]

NoRequest == Request("none", << >>, Num(0), Num(0), Num(0), 0)

\* the listener has not been called a second time
NoSecond ==
  [pc |-> "idle", request |-> NoRequest, sliceIndex |-> 0, spectrumData |-> << >>,
   posts |-> {}, firstAt |-> 0]

\* no source node (audioSource.current is null)
NoSource == [live |-> FALSE, offset |-> 0]

\* the App component as it mounts (audioProcessor.ts lines 132-152): no
\* audio, no audio context, nothing playing; times in seconds, clock is
\* audioContext.currentTime
NoPlayer ==
  [loaded |-> FALSE, hasContext |-> FALSE, isPlaying |-> FALSE, currentTime |-> 0,
   duration |-> 0, source |-> NoSource, startTime |-> 0, pauseTime |-> 0, clock |-> 0]

\* nothing has happened around the tasks
NoSession == caller = CallerWaiting /\ second = NoSecond /\ player = NoPlayer

\* the reordering step has no array to work on
NoReorder == [input |-> << >>, output |-> << >>, steps |-> 0]

NoPureCall ==
  /\ signal = << >>
  /\ kernelOut = NotCalled
  /\ reorder = NoReorder
  /\ renderIn = NoRender
  /\ rectsOut = NotRendered
  /\ magnitudeIn = 0
  /\ colorOut = NoColor

\* a draw task as its module is loaded (part_000 lines 37-38, 281-282)
InitDrawTask ==
  /\ offscreenCanvas = "none"
  /\ ctx = "none"
  /\ handled = << >>
  /\ toTask = << >>
  /\ toHost = << >>
  /\ host = HostUnmounted(drawKind)

(***************************************************************************)
(* analyzeSpectrum (spectrumWorker.ts, lines 161-228)                      *)
(***************************************************************************)
numSlices(r) == ECeilDiv(r.duration, r.timeSlice)

samplesPerSlice(r) == EFloorDiv(EMul(r.sampleRate, r.timeSlice), TimeDen)

\* mutant: a progress event every ten slices, as the comment of line 181 says
progressInterval_EveryTen(r) == Num(10)

progressInterval(r) == EMax(Num(1), EFloorDiv(numSlices(r), ProgressDivisor))

startSample(r, i) == EMul(Num(i), samplesPerSlice(r))

\* mutant: the end of the slice is not clamped to the buffer
endSample_Unclamped(r, i) == EAdd(startSample(r, i), samplesPerSlice(r))

\* audioData[0] exists in every use of endSample
endSample(r, i) ==
  EMin(EAdd(startSample(r, i), samplesPerSlice(r)), Num(Len(r.audioData[1])))

\* ToIntegerOrInfinity and the clamping of TypedArray.prototype.slice
RelIndex(x, len) ==
  IF IsNaN(x) \/ x = NegInf THEN 0
  ELSE IF x = PosInf THEN len
  ELSE IF x.v < 0 THEN Max(len + x.v, 0) ELSE Min(x.v, len)

\* buf.slice(start, end): a copy
slice(buf, start, end) ==
  SubSeq(buf, RelIndex(start, Len(buf)) + 1, RelIndex(end, Len(buf)))

\* Math.round((i + 1) / numSlices * 100), in an iteration of the loop
\* (numSlices is then a positive integer or +Infinity)
progressOf(r, i) ==
  LET n == numSlices(r)
  IN IF IsNum(n) THEN (200 * (i + 1) + n.v) \div (2 * n.v) ELSE 0

\* mutant: no progress event for the last slice as such
ProgressDue_NoLast(r, i) ==
  LET p == progressInterval(r)
  IN \/ IsNum(p) /\ i % p.v = 0
     \/ p = PosInf /\ i = 0

\* sliceIndex % progressInterval === 0 || sliceIndex === numSlices - 1
ProgressDue(r, i) ==
  LET p == progressInterval(r)
      n == numSlices(r)
  IN \/ IsNum(p) /\ i % p.v = 0
     \/ p = PosInf /\ i = 0
     \/ IsNum(n) /\ i = n.v - 1

\* mutant: the analyzer yields after its first slice only
YieldDue_OnlyFirst(i) == i = 0

\* sliceIndex % 50 === 0
YieldDue(i) == i % YieldEvery = 0

\* the per-channel copies of slice i (lines 194-197), when every channel
\* buffer exists
sliceChannelData(r, i) ==
  SubSeq([c \in 1..r.channels |->
            slice(r.audioData[c], startSample(r, i), endSample(r, i))],
         1, r.channels)

\* mutant: a missing channel buffer ends the loop quietly, as an empty slice
\* does, instead of leaving analyzeSpectrum with a fault
SliceOutcome_MissingChannelEnds(r, i, size) ==
  IF ~ELt(Num(i), numSlices(r)) THEN [kind |-> "exit", frame |-> << >>, err |-> ""]
  ELSE IF Len(r.audioData) = 0 THEN [kind |-> "throw", frame |-> << >>, err |-> "TypeError"]
  ELSE IF ELe(endSample(r, i), startSample(r, i))
       THEN [kind |-> "break", frame |-> << >>, err |-> ""]
  ELSE IF r.channels > Len(r.audioData)
       THEN [kind |-> "break", frame |-> << >>, err |-> ""]
  ELSE CHOOSE o \in
         {IF res.ok THEN [kind |-> "ok", frame |-> res.val, err |-> ""]
          ELSE [kind |-> "throw", frame |-> << >>, err |-> res.err] :
            res \in {analyzeAudioSlice(sliceChannelData(r, i), size)}} : TRUE

\* What iteration i of the loop does: "exit" (the loop condition fails),
\* "break" (empty slice), "throw" (a fault leaves analyzeSpectrum) or "ok"
\* (a frame was produced).
SliceOutcome(r, i, size) ==
  IF ~ELt(Num(i), numSlices(r)) THEN [kind |-> "exit", frame |-> << >>, err |-> ""]
  ELSE IF Len(r.audioData) = 0 THEN [kind |-> "throw", frame |-> << >>, err |-> "TypeError"]
  ELSE IF ELe(endSample(r, i), startSample(r, i))
       THEN [kind |-> "break", frame |-> << >>, err |-> ""]
  ELSE IF r.channels > Len(r.audioData)
       THEN [kind |-> "throw", frame |-> << >>, err |-> "TypeError"]
  ELSE CHOOSE o \in
         {IF res.ok THEN [kind |-> "ok", frame |-> res.val, err |-> ""]
          ELSE [kind |-> "throw", frame |-> << >>, err |-> res.err] :
            res \in {analyzeAudioSlice(sliceChannelData(r, i), size)}} : TRUE

(***************************************************************************)
(* Memory effects of one slice.  An array of the code is named by a        *)
(* reference: "fresh" for an array allocated during the slice, "caller"    *)
(* for a range of channel buffer chan of the request starting at offset    *)
(* at.  A write stores vals into the array of its reference.               *)
(***************************************************************************)
Fresh == [owner |-> "fresh", chan |-> 0, at |-> 0]

Write(ref, vals) == [ref |-> ref, vals |-> vals]

\* audioData[c].slice(startSample, endSample) allocates a copy (line 196)
sliceRef(r, i, c) == Fresh

\* combinedChannelData: a new array for several channels, channelData[0]
\* itself for one (lines 241-255)
combinedRef(r, i) == IF r.channels > 1 THEN Fresh ELSE sliceRef(r, i, 1)

\* the padded copy of the down-mixed slice (lines 259-265)
paddedData(r, i, size) ==
  CHOOSE d \in
    {SubSeq([k \in 1..size |-> IF k <= Min(Len(cd[1]), size)
                               THEN SumChannels(cd, k - 1, 1) ELSE Num(0)], 1, size) :
       cd \in {sliceChannelData(r, i)}} : TRUE

\* mutant: the slices are views of the caller's buffers and the window is
\* applied to the first of them in place
SliceWrites_InPlace(r, i, size) ==
  IF r.channels = 0 THEN << >>
  ELSE
  <<Write([owner |-> "caller", chan |-> 1,
           at |-> RelIndex(startSample(r, i), Len(r.audioData[1]))],
          applyHannWindow(sliceChannelData(r, i)[1]))>>

\* the arrays written while slice i is analysed, in order: the down-mix
\* (lines 244-251, several channels only), dataForFFT (lines 259-265), the
\* result of applyHannWindow (lines 131-137) and real of computeFFT
\* (lines 55-61); performFFT then works on real and imag only
SliceWrites(r, i, size) ==
  IF r.channels = 0 THEN << >>
  ELSE (IF r.channels > 1
        THEN <<Write(combinedRef(r, i), paddedData(r, i, Len(sliceChannelData(r, i)[1])))>>
        ELSE << >>)
       \o <<Write(Fresh, paddedData(r, i, size)),
            Write(Fresh, applyHannWindow(paddedData(r, i, size))),
            Write(Fresh, applyHannWindow(paddedData(r, i, size)))>>

\* buffers after write w
ApplyWrite(buffers, w) ==
  IF w.ref.owner # "caller" THEN buffers
  ELSE [buffers EXCEPT ![w.ref.chan] =
          [k \in 1..Len(@) |->
             IF k > w.ref.at /\ k <= w.ref.at + Len(w.vals) THEN w.vals[k - w.ref.at]
             ELSE @[k]]]

RECURSIVE ApplyWrites(_, _, _)
\* buffers after the writes ws[n], ws[n + 1], ...
ApplyWrites(buffers, ws, n) ==
  IF n > Len(ws) THEN buffers
  ELSE ApplyWrites(ApplyWrite(buffers, ws[n]), ws, n + 1)

Message(type, progress, currentSlice, totalSlices, data, error) ==
  [type |-> type, progress |-> progress, currentSlice |-> currentSlice,
   totalSlices |-> totalSlices, data |-> data, error |-> error]

\* mutant: the snapshot is taken before the frame of the slice is appended
ProgressMessage_Stale(r, i, grid) ==
  Message("progress", progressOf(r, i), i + 1, numSlices(r), spectrumData, "")

ProgressMessage(r, i, grid) ==
  Message("progress", progressOf(r, i), i + 1, numSlices(r), grid, "")

ResultMessage(grid) == Message("result", 0, 0, Num(0), grid, "")

ErrorMessage(e) == Message("error", 0, 0, Num(0), << >>, e)

(***************************************************************************)
(* Actions of the analysis task                                            *)
(***************************************************************************)
\* the message listener is called with a message (lines 143-148); a null
\* message fails at the destructuring, outside the try block
Receive(r) ==
  /\ pc = "idle"
  /\ request' = r
  /\ sliceIndex' = 0
  /\ spectrumData' = << >>
  /\ pc' = IF r.type = "analyzeSpectrum" THEN "running" ELSE "done"
  /\ uncaught' = (r.type = "null")
  /\ callerData' = r.audioData
  /\ sched' = NothingWaiting
  /\ UNCHANGED <<fftSize, posted, drawVars, pureVars, sessionVars>>

\* one iteration of the loop that produces a frame (lines 185-221)
ProcessSliceWhile(arrives) ==
  /\ pc = "running"
  /\ sliceIndex < MaxIter
  /\ \E o \in {SliceOutcome(request, sliceIndex, fftSize)} :
       /\ o.kind = "ok"
       /\ \E grid \in {Append(spectrumData, o.frame)} :
            /\ spectrumData' = grid
            /\ posted' = IF ProgressDue(request, sliceIndex)
                         THEN Append(posted, ProgressMessage(request, sliceIndex, grid))
                         ELSE posted
       /\ pc' = IF YieldDue(sliceIndex) THEN "yielded" ELSE "running"
       /\ sliceIndex' = sliceIndex + 1
  /\ callerData' = ApplyWrites(callerData, SliceWrites(request, sliceIndex, fftSize), 1)
  /\ arrives => ~sched.pending /\ ~sched.served
  /\ sched' = [sinceYield |-> sched.sinceYield + 1,
               pending |-> sched.pending \/ arrives,
               waited |-> IF sched.pending THEN sched.waited + 1 ELSE 0,
               served |-> sched.served]
  /\ UNCHANGED <<request, fftSize, uncaught, drawVars, pureVars, sessionVars>>

\* one iteration of the loop with no message arriving at the task meanwhile
ProcessSlice == ProcessSliceWhile(FALSE)

\* the timer of the zero-delay yield fires (line 219)
Resume ==
  /\ pc = "yielded"
  /\ ~sched.pending
  /\ pc' = "running"
  /\ sched' = [sched EXCEPT !.sinceYield = 0]
  /\ UNCHANGED <<request, fftSize, sliceIndex, spectrumData, posted, uncaught, callerData,
                 drawVars, pureVars, sessionVars>>

\* while the analysis is suspended the listener is called with the message
\* that arrived during the slices before, a message of another type, which
\* it ignores (lines 143-146); the message was queued before the timer
Serve ==
  /\ pc = "yielded"
  /\ sched.pending
  /\ sched' = [sched EXCEPT !.pending = FALSE, !.served = TRUE]
  /\ UNCHANGED <<pc, request, fftSize, sliceIndex, spectrumData, posted, uncaught,
                 callerData, drawVars, pureVars, sessionVars>>

\* the loop ends, by its condition or by the break, and the result is
\* posted (lines 185, 189-191, 224-227)
Finish ==
  /\ pc = "running"
  /\ SliceOutcome(request, sliceIndex, fftSize).kind \in {"exit", "break"}
  /\ posted' = Append(posted, ResultMessage(spectrumData))
  /\ pc' = "done"
  /\ UNCHANGED <<request, fftSize, sliceIndex, spectrumData, uncaught, callerData, sched,
                 drawVars, pureVars, sessionVars>>

\* mutant: after the 'error' the result is posted as well
Fail_ThenResult ==
  /\ pc = "running"
  /\ \E o \in {SliceOutcome(request, sliceIndex, fftSize)} :
       /\ o.kind = "throw"
       /\ posted' = posted \o <<ErrorMessage(o.err), ResultMessage(spectrumData)>>
  /\ pc' = "done"
  /\ UNCHANGED <<request, fftSize, sliceIndex, spectrumData, uncaught, callerData, sched,
                 drawVars, pureVars, sessionVars>>

\* a fault leaves analyzeSpectrum and the listener posts 'error'
\* (lines 149-154)
Fail ==
  /\ pc = "running"
  /\ \E o \in {SliceOutcome(request, sliceIndex, fftSize)} :
       /\ o.kind = "throw"
       /\ posted' = Append(posted, ErrorMessage(o.err))
  /\ pc' = "done"
  /\ UNCHANGED <<request, fftSize, sliceIndex, spectrumData, uncaught, callerData, sched,
                 drawVars, pureVars, sessionVars>>

InitAnalysis ==
  /\ pc = "idle"
  /\ request = NoRequest
  /\ sliceIndex = 0
  /\ spectrumData = << >>
  /\ posted = << >>
  /\ uncaught = FALSE
  /\ callerData = << >>
  /\ sched = NothingWaiting

Init ==
  /\ InitAnalysis
  /\ fftSize = FftSize
  /\ drawKind = "spectrum"
  /\ InitDrawTask
  /\ NoSession
  /\ NoPureCall

Next ==
  \/ pc = "idle" /\ \E r \in Requests : Receive(r)
  \/ ProcessSlice
  \/ Resume
  \/ Finish
  \/ Fail

Spec == Init /\ [][Next]_vars

\* the same task with the transform size left open
InitAnySize ==
  /\ InitAnalysis
  /\ fftSize \in FftSizes
  /\ drawKind = "spectrum"
  /\ InitDrawTask
  /\ NoSession
  /\ NoPureCall

\* well-formed requests of a few slices
AnySizeRequests ==
  {Request("analyzeSpectrum", a, Num(4), d, Num(1), c) :
     a \in AudioSets, d \in {Num(1), Num(3), Num(5)}, c \in 0..2}

NextAnySize ==
  \/ pc = "idle" /\ \E r \in AnySizeRequests : Receive(r)
  \/ ProcessSlice
  \/ Resume
  \/ Finish
  \/ Fail

SpecAnySize == InitAnySize /\ [][NextAnySize]_vars

\* the specification of the suspensions: requests with few and with many
\* slices, and at most one message of another type arriving at the task
\* while a slice of each analysis is processed
YieldRequests ==
  LongRequests
    \cup {r \in SmallRequests :
            /\ r.sampleRate = Num(4)
            /\ r.timeSlice = Num(1)
            /\ r.duration \in {Num(0), Num(3), Num(5)}}

NextYield ==
  \/ pc = "idle" /\ \E r \in YieldRequests : Receive(r)
  \/ \E arrives \in BOOLEAN : ProcessSliceWhile(arrives)
  \/ Resume
  \/ Serve
  \/ Finish
  \/ Fail

SpecYield == Init /\ [][NextYield]_vars

(***************************************************************************)
(* Properties of the analysis task                                         *)
(***************************************************************************)
IsTerminal(m) == m.type \in {"result", "error"}

Terminals == {i \in 1..Len(posted) : IsTerminal(posted[i])}

Progresses == {i \in 1..Len(posted) : posted[i].type = "progress"}

\* the request in hand is an analysis request
Analysing == pc # "idle" /\ request.type = "analyzeSpectrum"

ResultPosted == \E i \in Terminals : posted[i].type = "result"

ErrorPosted == \E i \in Terminals : posted[i].type = "error"

\* C1: every 'analyzeSpectrum' request is answered with a terminal message
\* whatever the values of its fields: the slice loop always terminates.
\* MaxIter is above every finite numSlices and every buffer length of the
\* inputs, so a terminating loop never performs MaxIter iterations.
C1_LoopTerminates == Analysing => sliceIndex < MaxIter

\* C2: the messages of one analysis are progress events with strictly
\* increasing currentSlice, then at most one terminal event, and nothing
\* after the terminal event.
C2_MessageOrder ==
  /\ \A i, j \in Progresses : i < j => posted[i].currentSlice < posted[j].currentSlice
  /\ Cardinality(Terminals) <= 1
  /\ \A t \in Terminals : t = Len(posted)

C2_Witness ==
  /\ pc = "done"
  /\ Cardinality(Progresses) >= 3
  /\ ResultPosted

FirstProgress == posted[CHOOSE i \in Progresses : \A j \in Progresses : i <= j]

LastProgress == posted[CHOOSE i \in Progresses : \A j \in Progresses : j <= i]

\* the body of C3: there are progress events, the first has currentSlice
\* >= 1, the last has currentSlice = numSlices and progress = 100
ProgressRunsToEnd ==
  /\ Progresses # {}
  /\ FirstProgress.currentSlice >= 1
  /\ Num(LastProgress.currentSlice) = numSlices(request)
  /\ LastProgress.progress = 100

\* C3 as stated: every analysis of numSlices >= 1 slices that ends with
\* 'result' has a first progress event with currentSlice >= 1 and a last one
\* with currentSlice = numSlices and progress = 100.
C3_Original ==
  (ResultPosted /\ ELe(Num(1), numSlices(request))) => ProgressRunsToEnd

\* C3 amended: the same for the analyses whose result holds numSlices frames
\* (the loop did not stop early on an empty slice).
C3_ProgressOfCompleteRun ==
  (/\ ResultPosted
   /\ ELe(Num(1), numSlices(request))
   /\ Num(Len(spectrumData)) = numSlices(request)) => ProgressRunsToEnd

\* a complete run whose last slice index is not a multiple of the interval
C3_Witness ==
  /\ ResultPosted
  /\ numSlices(request) = Num(40)
  /\ Len(spectrumData) = 40
  /\ progressInterval(request) = Num(2)

\* the grid carried by the 'result' message
ResultGrid == posted[CHOOSE i \in Terminals : posted[i].type = "result"].data

\* the frames are those of the slices 0, 1, ... in this order
FramesInSliceOrder(grid) ==
  \A j \in 1..Len(grid) : grid[j] = SliceOutcome(request, j - 1, fftSize).frame

\* number of samples: the length of the first channel buffer
NumSamples == Len(request.audioData[1])

\* i * floor(sampleRate * timeSlice) >= number of samples
StartsPastEnd(i) == ELe(Num(NumSamples), EMul(Num(i), samplesPerSlice(request)))

\* the slice [i*s, min(i*s + s, number of samples)) is empty
CoversNothing(i) ==
  LET s == samplesPerSlice(request)
  IN ELe(EMin(EAdd(EMul(Num(i), s), s), Num(NumSamples)), EMul(Num(i), s))

\* C4 as stated: the result grid has exactly numSlices frames, and fewer
\* only when slice i would be empty, i * samplesPerSlice >= number of
\* samples; it then holds the frames of the slices before i, in order.
C4_Original ==
  ResultPosted =>
    /\ FramesInSliceOrder(ResultGrid)
    /\ \A j \in 0..(Len(ResultGrid) - 1) : ~StartsPastEnd(j)
    /\ \/ Num(Len(ResultGrid)) = numSlices(request)
       \/ /\ request.audioData # << >>
          /\ ELt(Num(Len(ResultGrid)), numSlices(request))
          /\ StartsPastEnd(Len(ResultGrid))

\* C4 amended: the result grid has exactly numSlices frames when numSlices
\* is a number >= 1 and none when it is not, and fewer only when slice i
\* would be empty, min(i*s + s, number of samples) <= i*s for
\* s = samplesPerSlice (so also when s <= 0); it then holds the frames of
\* the slices before i, in order.
C4_FrameCount ==
  ResultPosted =>
    /\ FramesInSliceOrder(ResultGrid)
    /\ \A j \in 0..(Len(ResultGrid) - 1) : ~CoversNothing(j)
    /\ \/ ELe(Num(1), numSlices(request)) /\ Num(Len(ResultGrid)) = numSlices(request)
       \/ ~ELe(Num(1), numSlices(request)) /\ Len(ResultGrid) = 0
       \/ /\ request.audioData # << >>
          /\ ELt(Num(Len(ResultGrid)), numSlices(request))
          /\ CoversNothing(Len(ResultGrid))

\* a result cut short by an empty slice after two frames
C4_Witness ==
  /\ ResultPosted
  /\ Len(ResultGrid) = 2
  /\ ELt(Num(2), numSlices(request))
  /\ ResultGrid[1] # ResultGrid[2]

\* every snapshot posted so far holds currentSlice frames, which are the
\* first currentSlice frames of the grid, and of the grid of the result
SnapshotsArePrefixes ==
  \A p \in Progresses :
    /\ Len(posted[p].data) = posted[p].currentSlice
    /\ posted[p].data = SubSeq(spectrumData, 1, posted[p].currentSlice)
    /\ ResultPosted => posted[p].data = SubSeq(ResultGrid, 1, posted[p].currentSlice)

\* a step leaves every message posted before it as it was
PostedIsKept ==
  \A i \in 1..Len(posted) : i <= Len(posted') /\ posted'[i] = posted[i]

\* C5: every progress event carries a copy of all frames produced so far:
\* exactly currentSlice frames, equal to the first currentSlice frames of
\* the grid finally delivered, and never changed by later appends.
C5_SnapshotsAreCopies == []SnapshotsArePrefixes /\ [][PostedIsKept]_vars

\* a snapshot shorter than the grid delivered after it
C5_Witness ==
  /\ ResultPosted
  /\ \E p \in Progresses : 0 < posted[p].currentSlice /\ posted[p].currentSlice < Len(ResultGrid)
  /\ ResultGrid[1] # ResultGrid[2]

\* the try block of analyzeAudioSlice raises on slice j
TryRaises(j) == ~analyzeAudioSliceTry(sliceChannelData(request, j), fftSize).ok

\* the number of frames of a run that ends with 'result'
FramesDue(n) ==
  IF request.audioData = << >> \/ ~ELe(Num(1), numSlices(request)) THEN n = 0
  ELSE /\ ELe(Num(n), numSlices(request))
       /\ Num(n) # numSlices(request) => CoversNothing(n)

KernelRejects(j) ==
  LET r == analyzeAudioSliceTry(sliceChannelData(request, j), fftSize)
  IN ~r.ok /\ r.err = "FFT size must be a power of 2"

\* C7: a violation of the FFT kernel's input-size precondition during a
\* slice is fatal: the analysis stops at that slice (no frame is produced
\* for it) and ends with 'error', with no 'result'.
C7_KernelViolationFatal ==
  Analysing =>
    /\ spectrumData # << >> => ~KernelRejects(Len(spectrumData) - 1)
    /\ (\E j \in 1..Len(spectrumData) : KernelRejects(j - 1)) => ~ResultPosted

(***************************************************************************)
(* Draw tasks (workers/spectrumDrawer.ts and workers/waveformDrawer.ts)    *)
(*                                                                         *)
(* A message to a draw task carries its type and what the handler reads of *)
(* the payload: whether the canvas is there, the data (a grid, or Missing  *)
(* when the field is absent) and whether padding and the                   *)
(* frequency labels are there.  Types are erased at run time, so a task    *)
(* can be sent a message with a field missing.                             *)
(***************************************************************************)
\* the most messages one draw task is sent when it is looked at alone
MaxMessages == 3

DrawMessage(type, canvas, data, padding, freqLabels) ==
  [type |-> type, canvas |-> canvas, data |-> data, padding |-> padding,
   freqLabels |-> freqLabels]

\* grids of no, one and two slices (frames of two bins)
Grids == {<< >>, <<<<1, 0>>>>, <<<<1, 0>>, <<0, 2>>>>}

CanvasMessages == {DrawMessage("canvas", c, Missing, FALSE, FALSE) : c \in BOOLEAN}

DrawRequests ==
  {DrawMessage("draw", FALSE, d, p, f) :
     d \in {Data(g) : g \in Grids} \cup {Missing}, p \in BOOLEAN, f \in BOOLEAN}

\* a message of another type, and a message whose data is null
OtherMessages ==
  {DrawMessage("other", FALSE, Missing, FALSE, FALSE),
   DrawMessage("null", FALSE, Missing, FALSE, FALSE)}

\* what a call did: the events it posted, whether it threw, whether it
\* wrote to the surface
Did(posts, thrown, painted) == [posts |-> posts, thrown |-> thrown, painted |-> painted]

\* drawSpectrum(data) (part_000 lines 136-278)
drawSpectrum(m, cv, cx) ==
  IF cx = "none" \/ cv = "none" THEN Did(<< >>, FALSE, FALSE)
  ELSE IF ~m.data.present THEN Did(<< >>, TRUE, FALSE)
  ELSE IF Len(m.data.rows) = 0 THEN Did(<< >>, FALSE, FALSE)
  ELSE IF ~m.padding THEN Did(<< >>, TRUE, FALSE)
  ELSE IF ~m.freqLabels THEN Did(<< >>, TRUE, TRUE)
  ELSE Did(<<"drawComplete">>, FALSE, TRUE)

\* drawWaveform(e.data) (part_000 lines 318-412)
drawWaveform(m, cv, cx) ==
  IF cv = "none" \/ cx = "none" \/ ~m.data.present THEN Did(<< >>, FALSE, FALSE)
  ELSE IF ~m.padding THEN Did(<< >>, TRUE, TRUE)
  ELSE Did(<< >>, FALSE, TRUE)

\* what the handling of one message did: the task's surface and context
\* after it, the events posted, the fault ("none", "caught" by the handler,
\* or "uncaught") and whether the surface was written
Handling(cv, cx, posts, fault, painted) ==
  [offscreenCanvas |-> cv, ctx |-> cx, posts |-> posts, fault |-> fault,
   painted |-> painted]

\* mutant: a draw request is passed to drawSpectrum without the check for
\* the surface
spectrumOnMessage_NoGuard(m, cv, cx, contextOk) ==
  CASE m.type = "null" -> Handling(cv, cx, << >>, "uncaught", FALSE)
    [] m.type = "canvas" ->
         IF ~m.canvas THEN Handling("none", cx, << >>, "uncaught", FALSE)
         ELSE Handling("held", IF contextOk THEN "ready" ELSE "none",
                       <<"canvasReady">>, "none", FALSE)
    [] m.type = "draw" ->
         LET d == drawSpectrum(m, cv, cx)
         IN Handling(cv, cx, d.posts, IF d.thrown THEN "uncaught" ELSE "none", d.painted)
    [] OTHER -> Handling(cv, cx, << >>, "none", FALSE)

\* self.onmessage of the spectrum draw task (part_000 lines 41-65);
\* contextOk: getContext returns a context
spectrumOnMessage(m, cv, cx, contextOk) ==
  CASE m.type = "null" -> Handling(cv, cx, << >>, "uncaught", FALSE)
    [] m.type = "canvas" ->
         IF ~m.canvas THEN Handling("none", cx, << >>, "uncaught", FALSE)
         ELSE Handling("held", IF contextOk THEN "ready" ELSE "none",
                       <<"canvasReady">>, "none", FALSE)
    [] m.type = "draw" ->
         IF cv = "none" \/ cx = "none" THEN Handling(cv, cx, <<"error">>, "none", FALSE)
         ELSE LET d == drawSpectrum(m, cv, cx)
              IN Handling(cv, cx, d.posts, IF d.thrown THEN "uncaught" ELSE "none",
                          d.painted)
    [] OTHER -> Handling(cv, cx, << >>, "none", FALSE)

\* self.onmessage of the waveform draw task (part_000 lines 284-315)
waveformOnMessage(m, cv, cx, contextOk) ==
  CASE m.type = "null" -> Handling(cv, cx, <<"error">>, "caught", FALSE)
    [] m.type = "canvas" ->
         IF ~m.canvas THEN Handling("none", cx, <<"error">>, "caught", FALSE)
         ELSE IF ~contextOk THEN Handling("held", "none", <<"error">>, "none", FALSE)
         ELSE Handling("held", "ready", <<"canvasReady">>, "none", FALSE)
    [] m.type = "draw" ->
         IF cv = "none" \/ cx = "none" THEN Handling(cv, cx, <<"error">>, "none", FALSE)
         ELSE LET d == drawWaveform(m, cv, cx)
              IN IF d.thrown THEN Handling(cv, cx, <<"error">>, "caught", d.painted)
                 ELSE Handling(cv, cx, <<"drawComplete">>, "none", d.painted)
    [] OTHER -> Handling(cv, cx, << >>, "none", FALSE)

\* an event on its way to the host; re is the type of the message it answers
Event(type, re) == [type |-> type, re |-> re]

\* the draw task handles message m
onmessage(m) ==
  \E contextOk \in BOOLEAN :
    \E h \in {IF drawKind = "spectrum"
              THEN spectrumOnMessage(m, offscreenCanvas, ctx, contextOk)
              ELSE waveformOnMessage(m, offscreenCanvas, ctx, contextOk)} :
      /\ offscreenCanvas' = h.offscreenCanvas
      /\ ctx' = h.ctx
      /\ handled' = Append(handled, [msg |-> m, surface |-> offscreenCanvas,
                                     context |-> ctx, posts |-> h.posts,
                                     fault |-> h.fault, painted |-> h.painted])
      /\ toHost' = toHost \o [i \in 1..Len(h.posts) |-> Event(h.posts[i], m.type)]

\* the draw task alone, sent any message at any time
ReceiveCanvas ==
  /\ Len(handled) < MaxMessages
  /\ \E m \in CanvasMessages : onmessage(m)
  /\ UNCHANGED <<analysisVars, pureVars, sessionVars, drawKind, toTask, host>>

ReceiveDraw ==
  /\ Len(handled) < MaxMessages
  /\ \E m \in DrawRequests : onmessage(m)
  /\ UNCHANGED <<analysisVars, pureVars, sessionVars, drawKind, toTask, host>>

ReceiveOther ==
  /\ Len(handled) < MaxMessages
  /\ \E m \in OtherMessages : onmessage(m)
  /\ UNCHANGED <<analysisVars, pureVars, sessionVars, drawKind, toTask, host>>

InitDraw ==
  /\ InitAnalysis
  /\ fftSize = FftSize
  /\ drawKind \in {"spectrum", "waveform"}
  /\ InitDrawTask
  /\ NoSession
  /\ NoPureCall

NextDraw ==
  \/ ReceiveCanvas
  \/ ReceiveDraw
  \/ ReceiveOther

SpecDraw == InitDraw /\ [][NextDraw]_vars

(***************************************************************************)
(* Host components (Spectrum: part_005, Waveform: components/Waveform.tsx) *)
(*                                                                         *)
(* A change of a property or of a piece of state re-renders the component  *)
(* and runs the effects that depend on it; an action is the change         *)
(* together with the effects it triggers.                                  *)
(***************************************************************************)
\* the most 'draw' messages a host component posts
MaxDraws == 3

\* container widths the layout can give
Widths == {0, 100, 200}

\* values of the data property
HostData == {Data(g) : g \in Grids} \cup {Missing}

\* the data the component keeps for a data property d: Spectrum keeps a
\* non-empty array and otherwise the empty grid (part_005 lines 155-195),
\* Waveform uses the property as it is
KeptData(kind, d) ==
  IF kind = "spectrum"
  THEN (IF d.present /\ Len(d.rows) > 0 THEN d ELSE Data(<< >>))
  ELSE d

\* the condition under which the draw effect posts (part_005 lines 398-402
\* and 330, Waveform.tsx lines 209-211 and 191)
DrawDue(kind, h) ==
  /\ h.browserSupported
  /\ h.workerInitialized
  /\ h.offscreenCanvasRef
  /\ h.containerWidth > 0
  /\ IF kind = "spectrum" THEN Len(h.data.rows) > 0 ELSE h.data.present

\* the 'draw' message of the component (part_005 lines 333-343,
\* Waveform.tsx lines 194-205)
HostDrawMessage(h) == DrawMessage("draw", FALSE, h.data, TRUE, TRUE)

\* the component after its draw effect (postMessageToSpectrumWorker,
\* drawWaveformUsingWorker)
AfterDrawEffect(kind, h) ==
  IF ~DrawDue(kind, h) THEN h
  ELSE [h EXCEPT !.drawsPosted = @ + 1,
                 !.isLoading = IF kind = "waveform" THEN TRUE ELSE @,
                 !.waveformDrawn = IF kind = "waveform" THEN FALSE ELSE @]

\* the messages the draw effect posts
DrawEffectPosts(kind, h) == IF DrawDue(kind, h) THEN <<HostDrawMessage(h)>> ELSE << >>

\* mutant: the draw effect runs before the transfer effect
Mount_DrawFirst(supported, d, w) ==
  /\ ~host.mounted
  /\ LET h1 == [host EXCEPT !.mounted = TRUE,
                            !.browserSupported = supported,
                            !.error = ~supported,
                            !.workerInitialized = supported,
                            !.data = KeptData(drawKind, d),
                            !.isLoading = FALSE,
                            !.containerWidth = w,
                            !.offscreenCanvasRef = supported,
                            !.transfers = IF supported THEN 1 ELSE 0]
     IN /\ host' = AfterDrawEffect(drawKind, h1)
        /\ toTask' = DrawEffectPosts(drawKind, h1) \o
                       (IF supported
                        THEN <<DrawMessage("canvas", TRUE, Missing, FALSE, FALSE)>>
                        ELSE << >>)
  /\ UNCHANGED <<analysisVars, pureVars, sessionVars, drawKind, taskVars, toHost>>

\* the component mounts: the worker is created, the data property and the
\* container width are taken, and in the next render the canvas is
\* transferred and the draw effect runs (part_005 lines 114-151, 154-196,
\* 228-261, 397-409)
Mount(supported, d, w) ==
  /\ ~host.mounted
  /\ LET h1 == [host EXCEPT !.mounted = TRUE,
                            !.browserSupported = supported,
                            !.error = ~supported,
                            !.workerInitialized = supported,
                            !.data = KeptData(drawKind, d),
                            !.isLoading = FALSE,
                            !.containerWidth = w,
                            !.offscreenCanvasRef = supported,
                            !.transfers = IF supported THEN 1 ELSE 0]
     IN /\ host' = AfterDrawEffect(drawKind, h1)
        /\ toTask' = (IF supported
                      THEN <<DrawMessage("canvas", TRUE, Missing, FALSE, FALSE)>>
                      ELSE << >>) \o DrawEffectPosts(drawKind, h1)
  /\ UNCHANGED <<analysisVars, pureVars, sessionVars, drawKind, taskVars, toHost>>

\* the draw effect after a change that gave the component state h1
Redraw(h1) ==
  /\ host' = AfterDrawEffect(drawKind, h1)
  /\ toTask' = toTask \o DrawEffectPosts(drawKind, h1)

\* the data property changes
SetData(d) ==
  /\ host.mounted
  /\ host.drawsPosted < MaxDraws
  /\ KeptData(drawKind, d) # host.data
  /\ Redraw([host EXCEPT !.data = KeptData(drawKind, d),
                         !.isLoading = IF drawKind = "spectrum" THEN FALSE ELSE @,
                         !.error = IF drawKind = "spectrum" /\ d.present /\ Len(d.rows) > 0
                                   THEN FALSE ELSE @])
  /\ UNCHANGED <<analysisVars, pureVars, sessionVars, drawKind, taskVars, toHost>>

\* the resize observer reports another width (part_005 lines 231-241)
Resize(w) ==
  /\ host.mounted
  /\ host.drawsPosted < MaxDraws
  /\ w # host.containerWidth
  /\ Redraw([host EXCEPT !.containerWidth = w])
  /\ UNCHANGED <<analysisVars, pureVars, sessionVars, drawKind, taskVars, toHost>>

\* values of the analysisProgress property of Spectrum
AnalysisProgresses ==
  {[progress |-> q, partialData |-> d] : q \in {0, 50, 100}, d \in HostData}

\* analysisProgress.progress === 100 && analysisProgress.partialData &&
\* analysisProgress.partialData.length > 0
ProgressCompletes(p) ==
  /\ p.progress = 100
  /\ p.partialData.present
  /\ Len(p.partialData.rows) > 0

\* mutant: the partial data of every update is displayed
ProgressUpdate_ShowPartial(p) ==
  /\ host.mounted
  /\ drawKind = "spectrum"
  /\ host.drawsPosted < MaxDraws
  /\ IF p.partialData.present /\ Len(p.partialData.rows) > 0
     THEN Redraw([host EXCEPT !.isLoading = (p.progress < 100), !.data = p.partialData])
     ELSE /\ host' = [host EXCEPT !.isLoading = (p.progress < 100)]
          /\ toTask' = toTask
  /\ UNCHANGED <<analysisVars, pureVars, sessionVars, drawKind, taskVars, toHost>>

\* the analysisProgress property of Spectrum changes (part_005 lines
\* 198-220); a replaced grid is a new array and runs the draw effect
ProgressUpdate(p) ==
  /\ host.mounted
  /\ drawKind = "spectrum"
  /\ host.drawsPosted < MaxDraws
  /\ IF ProgressCompletes(p)
     THEN Redraw([host EXCEPT !.isLoading = (p.progress < 100), !.data = p.partialData])
     ELSE /\ host' = [host EXCEPT !.isLoading = (p.progress < 100)]
          /\ toTask' = toTask
  /\ UNCHANGED <<analysisVars, pureVars, sessionVars, drawKind, taskVars, toHost>>

\* the channel display mode is switched (Waveform.tsx line 308)
ToggleChannels ==
  /\ host.mounted
  /\ drawKind = "waveform"
  /\ host.drawsPosted < MaxDraws
  /\ Redraw([host EXCEPT !.showChannels =
                           IF @ = "combined" THEN "separate" ELSE "combined"])
  /\ UNCHANGED <<analysisVars, pureVars, sessionVars, drawKind, taskVars, toHost>>

\* the draw task handles the oldest message the host posted
Deliver ==
  /\ toTask # << >>
  /\ onmessage(Head(toTask))
  /\ toTask' = Tail(toTask)
  /\ UNCHANGED <<analysisVars, pureVars, sessionVars, drawKind, host>>

IsAck(e) == e.re = "draw" /\ e.type \in {"drawComplete", "error"}

\* workerRef.current.onmessage of the component (part_005 lines 128-135,
\* Waveform.tsx lines 66-74)
HostOnMessage ==
  /\ toHost # << >>
  /\ LET e == Head(toHost)
         counted == [host EXCEPT !.drawsAcked = IF IsAck(e) THEN @ + 1 ELSE @]
     IN host' =
          IF drawKind = "spectrum"
          THEN [counted EXCEPT !.error = IF e.type = "error" THEN TRUE ELSE @]
          ELSE IF e.type = "drawComplete"
               THEN [counted EXCEPT !.isLoading = FALSE, !.waveformDrawn = TRUE]
          ELSE IF e.type = "error"
               THEN [counted EXCEPT !.error = TRUE, !.isLoading = FALSE]
          ELSE counted
  /\ toHost' = Tail(toHost)
  /\ UNCHANGED <<analysisVars, pureVars, sessionVars, drawKind, taskVars, toTask>>

NextHost ==
  \/ \E supported \in BOOLEAN, d \in HostData, w \in Widths : Mount(supported, d, w)
  \/ \E d \in HostData : SetData(d)
  \/ \E w \in Widths : Resize(w)
  \/ \E p \in AnalysisProgresses : ProgressUpdate(p)
  \/ ToggleChannels
  \/ Deliver
  \/ HostOnMessage

SpecHost == InitDraw /\ [][NextHost]_vars

(***************************************************************************)
(* Properties of the draw tasks and of the host components                 *)
(***************************************************************************)
\* the acknowledgments among the events a handling posted
Acks(e) == {i \in 1..Len(e.posts) : e.posts[i] \in {"drawComplete", "error"}}

\* a draw request with every field of its payload
WellFormed(m) == m.type = "draw" /\ m.data.present /\ m.padding /\ m.freqLabels

\* C8: after the surface has been transferred, every draw request sent to
\* the spectrum draw task, whatever its grid (empty or not), produces
\* exactly one acknowledgment, 'drawComplete' or 'error'.
C8_OneAckPerDraw ==
  drawKind = "spectrum" =>
    \A k \in 1..Len(handled) :
      (WellFormed(handled[k].msg) /\ handled[k].surface = "held")
        => Cardinality(Acks(handled[k])) = 1

\* C9: in every background task a fault raised while a message is handled
\* is caught at the message handler and an 'error' event is posted: no
\* message is handled with a fault and without an error event.
C9_FaultsReported ==
  /\ ~uncaught
  /\ \A k \in 1..Len(handled) :
       handled[k].fault # "none"
         => handled[k].fault = "caught" /\ handled[k].posts = <<"error">>

\* the 'draw' messages of the host the draw task has not handled yet
Unanswered == {i \in 1..Len(toTask) : toTask[i].type = "draw"}

\* C10: the host serializes draw requests: a component never posts a 'draw'
\* while an earlier 'draw' of the same task has not been acknowledged, so
\* at most one 'draw' is ever waiting for its acknowledgment.
C10_DrawsSerialized == Cardinality(Unanswered) <= 1

\* the surface and the context of the draw task after its k-th message
SurfaceAfter(k) == IF k < Len(handled) THEN handled[k + 1].surface ELSE offscreenCanvas

ContextAfter(k) == IF k < Len(handled) THEN handled[k + 1].context ELSE ctx

\* no 'canvas' message was handled before the k-th message
BeforeTransfer(k) == \A j \in 1..(k - 1) : handled[j].msg.type # "canvas"

\* C11: a draw request received by a draw task before any surface was
\* transferred is answered with an 'error' acknowledgment, draws nothing and
\* leaves the surface and the context of the task absent.
C11_DrawBeforeTransfer ==
  \A k \in 1..Len(handled) :
    (handled[k].msg.type = "draw" /\ BeforeTransfer(k))
      => /\ handled[k].posts = <<"error">>
         /\ ~handled[k].painted
         /\ handled[k].surface = "none" /\ handled[k].context = "none"
         /\ SurfaceAfter(k) = "none" /\ ContextAfter(k) = "none"

\* a well-formed draw request was the first message and another message
\* followed it
C11_Witness ==
  /\ Len(handled) = 2
  /\ WellFormed(handled[1].msg)
  /\ handled[1].msg.data.rows # << >>
  /\ handled[1].posts = <<"error">>
  /\ handled[2].msg.type = "draw"

\* every message the host component has posted to its draw task, in order
SentToTask == [k \in 1..Len(handled) |-> handled[k].msg] \o toTask

\* the positions of the 'canvas' messages among them
Transfers == {k \in 1..Len(SentToTask) : SentToTask[k].type = "canvas"}

\* C12: each host component transfers its canvas to its draw task at most
\* once and posts every 'draw' only after the 'canvas' message; the handle
\* it keeps is never used again, so every write to the surface is one of the
\* draw task handling a 'draw' of the host.
C12_SurfaceOwnedByTask ==
  /\ host.transfers <= 1
  /\ Cardinality(Transfers) = host.transfers
  /\ host.offscreenCanvasRef = (host.transfers = 1)
  /\ \A k \in 1..Len(SentToTask) :
       SentToTask[k].type = "draw" => \E j \in 1..(k - 1) : j \in Transfers
  /\ \A k \in 1..Len(handled) :
       handled[k].painted => handled[k].msg.type = "draw" /\ handled[k].surface = "held"

\* the component has transferred its canvas and posted three draws, and the
\* task has painted for the first of them
C12_Witness ==
  /\ host.transfers = 1
  /\ host.drawsPosted = 3
  /\ \E k \in 1..Len(handled) : handled[k].painted

\* C13: an analysis call never writes to the caller's channel buffers: at
\* every point of an analysis (one or several channels, with or without a
\* failing slice) every sample of every input buffer has the value it had
\* when the request was received.
C13_InputUntouched == Analysing => callerData = request.audioData

\* a finished analysis of two channels with three frames
C13_Witness ==
  /\ Analysing
  /\ pc = "done"
  /\ ResultPosted
  /\ Len(request.audioData) = 2
  /\ request.channels = 2
  /\ Len(spectrumData) = 3

\* C14: during an analysis the analyzer never processes more than 50
\* consecutive slices without suspending through its zero-delay yield, so a
\* message that arrives at the task while a slice is processed is handled
\* before 50 further slices have been processed.
C14_YieldsEvery50 ==
  Analysing =>
    /\ sched.sinceYield <= YieldEvery
    /\ sched.pending => sched.waited < YieldEvery

\* the analyzer is suspended after 50 consecutive slices, with a message
\* that arrived during the first of them
C14_Witness ==
  /\ Analysing
  /\ pc = "yielded"
  /\ sched.sinceYield = YieldEvery
  /\ sched.pending
  /\ sched.waited = YieldEvery - 1

\* every grid the task holds or has posted: the grid under construction,
\* the snapshots of the progress events and the grid of the result
GridsEmitted ==
  {spectrumData} \cup {posted[i].data : i \in {k \in 1..Len(posted) : posted[k].type # "error"}}

\* number of samples of slice j
SliceLength(j) == Len(sliceChannelData(request, j)[1])

\* the frame of the first fftSize samples of slice j, zeros after them
FrameOfPadded(j) ==
  LET magnitudes == computeFFT(applyHannWindow(paddedData(request, j, fftSize))).val
  IN [i \in 1..Len(magnitudes) |-> logCompress(uniformGain(magnitudes[i]))]

\* the frame appended last is the frame of its slice padded or truncated
\* to fftSize samples, or fftSize/2 zeros when the slice failed
NewestFrameIsOfPaddedSlice ==
  \A j \in {Len(spectrumData)} \ {0} :
    spectrumData[j] = IF TryRaises(j - 1) THEN ZeroFrame(fftSize \div 2)
                      ELSE FrameOfPadded(j - 1)

HasInvalidSample ==
  \E c \in 1..Len(request.audioData) : \E k \in 1..Len(request.audioData[c]) :
    ~IsNum(request.audioData[c][k])

\* C16: every value of every frame the analyzer emits, in progress snapshots
\* and in the result, is a number >= 0 (never NaN, never negative), for
\* every input buffer, the frames of failed slices and of slices with
\* samples that are not valid numbers included.
C16_ValuesNonNegative ==
  \A grid \in GridsEmitted : \A j \in 1..Len(grid) : \A i \in 1..Len(grid[j]) :
    ~IsNaN(grid[j][i]) /\ ELe(Num(0), grid[j][i])

\* a result of three frames for a buffer with NaN and infinite samples, one
\* of the frames not all zeros
C16_Witness ==
  /\ ResultPosted
  /\ HasInvalidSample
  /\ Len(ResultGrid) = 3
  /\ \E j \in 1..3 : ResultGrid[j] # ZeroFrame(fftSize \div 2)

(***************************************************************************)
(* computeFFT on its own (spectrumWorker.ts, lines 46-73)                  *)
(***************************************************************************)
\* the longest signal handed to computeFFT on its own: the lengths cover the
\* powers of two 1, 2, 4 and the other lengths 0, 3, 5, 6, 7
MaxSignalLen == 7

SampleValues == {Num(0), Num(1), Num(-2)}

\* the signals: every sequence of sample values of every length
Signals == UNION {[1..n -> SampleValues] : n \in 0..MaxSignalLen}

InitKernel ==
  /\ InitAnalysis
  /\ fftSize = FftSize
  /\ drawKind = "spectrum"
  /\ InitDrawTask
  /\ NoSession
  /\ signal \in Signals
  /\ kernelOut = NotCalled
  /\ reorder = NoReorder
  /\ renderIn = NoRender
  /\ rectsOut = NotRendered
  /\ magnitudeIn = 0
  /\ colorOut = NoColor

\* computeFFT(signal), called once
CallComputeFFT ==
  /\ kernelOut = NotCalled
  /\ kernelOut' = computeFFT(signal)
  /\ UNCHANGED <<analysisVars, drawVars, sessionVars, signal, reorder, renderIn, rectsOut,
                 magnitudeIn, colorOut>>

NextKernel == CallComputeFFT

SpecKernel == InitKernel /\ [][NextKernel]_vars

KernelCalled == kernelOut # NotCalled

IsPowerOfTwo(n) == \E k \in 0..n : 2 ^ k = n

\* C17: computeFFT fails with the invalid-size error for every input length
\* N that is not a power of two (N = 0 included), and for no length that is
\* a power of two.
C17_InvalidSizeRejected ==
  KernelCalled =>
    (kernelOut.err = "FFT size must be a power of 2" <=> ~IsPowerOfTwo(Len(signal)))

\* C18: for every power-of-two N (N = 1, 2, 4, ...), computeFFT on an
\* all-zero signal of length N returns a sequence of exactly N/2 zeros.
C18_ZeroSignalZeroSpectrum ==
  (/\ KernelCalled
   /\ IsPowerOfTwo(Len(signal))
   /\ \A i \in 1..Len(signal) : signal[i] = Num(0))
    => /\ kernelOut.ok
       /\ kernelOut.val = ZeroFrame(Len(signal) \div 2)

(***************************************************************************)
(* The rendering functions of the spectrum drawer (part_000, lines 67-278) *)
(* on their own.  Magnitudes are carried in thousandths, frequencies in    *)
(* quarters of a hertz, logarithms in thousandths, and a vertical          *)
(* coordinate times LogSpan, so that getFrequencyY is exact on the carried *)
(* logarithms.                                                             *)
(***************************************************************************)
\* const nyquistFreq = 22050
NyquistFreq == 22050

\* the largest magnitude handed to getSignalColor, in thousandths: above 0.3
MaxMagnitude == 320

\* PADDING_CONFIG of the host component
PaddingConfig == [top |-> 10, right |-> 64, bottom |-> 30, left |-> 16]

\* 1000 * Math.log10(f), rounded, for the frequencies f = freq4 / 4 that
\* frames of 1, 2 or 4 bins use: 20, 5512.5, 11025, 16000, 16537.5, 22050 Hz
Log10Milli(freq4) ==
  CASE freq4 = 80 -> 1301
    [] freq4 = 22050 -> 3741
    [] freq4 = 44100 -> 4042
    [] freq4 = 64000 -> 4204
    [] freq4 = 66150 -> 4218
    [] freq4 = 88200 -> 4343

logMin == Log10Milli(4 * 20)

logMax == Log10Milli(4 * 16000)

LogSpan == logMax - logMin

\* getFrequencyY(freq, drawHeight, padding), times LogSpan
getFrequencyY(freq4, drawHeight, padding) ==
  padding.top * LogSpan
    + (LogSpan - (Log10Milli(freq4) - logMin)) * (drawHeight - padding.top - padding.bottom)

\* Math.max(20, (freqIdx * nyquistFreq) / binCount), in quarters of a hertz
BinEdge(freqIdx, binCount) == Max(4 * 20, (4 * freqIdx * NyquistFreq) \div binCount)

\* Math.round(c0 + t * (c1 - c0)) for t = num / den
Interpolate(c0, c1, num, den) == (2 * (c0 * den + num * (c1 - c0)) + den) \div (2 * den)

low == <<59, 7, 100>>

mediumLow == <<126, 34, 206>>

medium == <<219, 39, 119>>

mediumHigh == <<225, 29, 72>>

high == <<249, 115, 22>>

\* getSignalColor(magnitude), for a magnitude of m thousandths: the
\* normalised magnitude is Min(300, m) / 300 and its quarters are 75 apart
getSignalColor(m) ==
  LET n == Min(300, m)
  IN IF n < 75
     THEN <<Interpolate(low[1], mediumLow[1], n, 75),
            Interpolate(low[2], mediumLow[2], n, 75),
            Interpolate(low[3], mediumLow[3], n, 75)>>
     ELSE IF n < 150
     THEN <<Interpolate(mediumLow[1], medium[1], n - 75, 75),
            Interpolate(mediumLow[2], medium[2], n - 75, 75),
            Interpolate(mediumLow[3], medium[3], n - 75, 75)>>
     ELSE IF n < 225
     THEN <<Interpolate(medium[1], mediumHigh[1], n - 150, 75),
            Interpolate(medium[2], mediumHigh[2], n - 150, 75),
            Interpolate(medium[3], medium[3], n - 150, 75)>>
     ELSE <<Interpolate(mediumHigh[1], high[1], n - 225, 75),
            Interpolate(mediumHigh[2], high[2], n - 225, 75),
            Interpolate(mediumHigh[3], high[3], n - 225, 75)>>

\* the rectangle filled for bin freqIdx of slice timeIdx (lines 235-269):
\* x and w are carried times the number of slices, y and h times LogSpan
BinRect(data, timeIdx, freqIdx) ==
  LET timeSlice == data.spectrumData[timeIdx + 1]
      binCount == Len(timeSlice)
      drawWidth == data.width - data.padding.right
      yStart == getFrequencyY(BinEdge(freqIdx, binCount), data.height, data.padding)
      yEnd == getFrequencyY(BinEdge(freqIdx + 1, binCount), data.height, data.padding)
  IN [timeIdx |-> timeIdx, freqIdx |-> freqIdx,
      x |-> data.padding.left * Len(data.spectrumData) + timeIdx * drawWidth,
      y |-> yEnd,
      w |-> drawWidth,
      h |-> Max(LogSpan, yStart - yEnd),
      color |-> getSignalColor(timeSlice[freqIdx + 1])]

\* the rectangles drawSpectrum fills when it holds a surface and a context:
\* one for each bin whose magnitude is not below 0.001 (line 242)
spectrumRects(data) ==
  {BinRect(data, t, f) :
     <<t, f>> \in {tf \in (0..(Len(data.spectrumData) - 1)) \X (0..3) :
                     /\ tf[2] < Len(data.spectrumData[tf[1] + 1])
                     /\ data.spectrumData[tf[1] + 1][tf[2] + 1] >= 1}}

\* frames of 1, 2 and 4 bins with magnitudes 0, 0.02 and 0.2
RenderFrames == UNION {[1..n -> {0, 20, 200}] : n \in {1, 2, 4}}

RenderGrids == {<<f>> : f \in RenderFrames} \cup {<<f, f>> : f \in [1..2 -> {0, 200}]}

RenderInputs == {RenderData(g, 200, h, PaddingConfig) : g \in RenderGrids, h \in {100, 200}}

InitRender ==
  /\ InitAnalysis
  /\ fftSize = FftSize
  /\ drawKind = "spectrum"
  /\ InitDrawTask
  /\ NoSession
  /\ signal = << >>
  /\ kernelOut = NotCalled
  /\ reorder = NoReorder
  /\ rectsOut = NotRendered
  /\ colorOut = NoColor
  /\ \/ renderIn \in RenderInputs /\ magnitudeIn = 0
     \/ renderIn = NoRender /\ magnitudeIn \in 0..MaxMagnitude

\* the rectangles of one call of drawSpectrum
FullRender ==
  /\ ~rectsOut.done
  /\ renderIn # NoRender
  /\ rectsOut' = [done |-> TRUE, rects |-> spectrumRects(renderIn)]
  /\ UNCHANGED <<analysisVars, drawVars, sessionVars, signal, kernelOut, reorder, renderIn,
                 magnitudeIn, colorOut>>

\* getSignalColor(magnitude), called once
CallGetSignalColor ==
  /\ ~colorOut.done
  /\ colorOut' = [done |-> TRUE, rgb |-> getSignalColor(magnitudeIn)]
  /\ UNCHANGED <<analysisVars, drawVars, sessionVars, signal, kernelOut, reorder, renderIn,
                 rectsOut, magnitudeIn>>

NextRender ==
  \/ FullRender
  \/ CallGetSignalColor

SpecRender == InitRender /\ [][NextRender]_vars

\* C19: frequencyToY clamps its frequency to [20, 16000] Hz before mapping,
\* so in a full render both vertical edges of the rectangle of every drawn
\* bin lie between padding.top and drawHeight - padding.bottom, also for
\* bins whose frequency range lies above 16000 Hz or below 20 Hz.
C19_RectsInsidePlot ==
  rectsOut.done =>
    \A rect \in rectsOut.rects :
      /\ renderIn.padding.top * LogSpan <= rect.y
      /\ rect.y + rect.h <= (renderIn.height - renderIn.padding.bottom) * LogSpan

\* the control stops at the normalised magnitudes 0, 0.25, 0.5, 0.75, 1
Stops == <<low, mediumLow, medium, mediumHigh, high>>

\* the rounded linear interpolation between the two stops around
\* n = min(1, magnitude / 0.3), for a magnitude of m thousandths
ReferenceColor(m) ==
  LET n == Min(300, m)
      k == Min(3, n \div 75)
  IN [c \in 1..3 |-> Interpolate(Stops[k + 1][c], Stops[k + 2][c], n - 75 * k, 75)]

\* C20: magnitudeToColor equals the piecewise-linear reference for every
\* magnitude >= 0: each of the R, G and B channels is the rounded linear
\* interpolation between the two control stops surrounding n; the colour at
\* each threshold is that stop's colour, magnitude 0 gives (59,7,100) and
\* every magnitude >= 0.3 gives (249,115,22).
C20_ColorIsReference ==
  colorOut.done =>
    /\ colorOut.rgb = ReferenceColor(magnitudeIn)
    /\ magnitudeIn = 0 => colorOut.rgb = low
    /\ magnitudeIn >= 300 => colorOut.rgb = high

(***************************************************************************)
(* The owner of the analysis task.  Its code is not among the sources; it  *)
(* is modelled from the specification: it receives the messages of the     *)
(* task in the order they were posted, keeps the last progress snapshot,   *)
(* and may terminate the task, which stops the task and discards every     *)
(* message not yet delivered.                                              *)
(***************************************************************************)
\* mutant: delivery goes on after the task was terminated
CallerReceive_AfterTerminate ==
  /\ caller.received < Len(posted)
  /\ \E m \in {posted[caller.received + 1]} :
       caller' = [caller EXCEPT !.received = @ + 1,
                                !.progress = IF m.type = "progress" THEN Data(m.data) ELSE @,
                                !.result = IF m.type = "result" THEN Data(m.data) ELSE @]
  /\ UNCHANGED <<analysisVars, drawVars, pureVars, second, player>>

\* the next message of the task is delivered to the caller
CallerReceive ==
  /\ ~caller.terminated
  /\ caller.received < Len(posted)
  /\ \E m \in {posted[caller.received + 1]} :
       caller' = [caller EXCEPT !.received = @ + 1,
                                !.progress = IF m.type = "progress" THEN Data(m.data) ELSE @,
                                !.result = IF m.type = "result" THEN Data(m.data) ELSE @]
  /\ UNCHANGED <<analysisVars, drawVars, pureVars, second, player>>

\* the caller terminates the task while the analysis is in flight
Terminate ==
  /\ ~caller.terminated
  /\ pc \in {"running", "yielded"}
  /\ caller' = [caller EXCEPT !.terminated = TRUE]
  /\ pc' = "terminated"
  /\ UNCHANGED <<request, fftSize, sliceIndex, spectrumData, posted, uncaught, callerData,
                 sched, drawVars, pureVars, second, player>>

NextCancel ==
  \/ pc = "idle" /\ \E r \in YieldRequests : Receive(r)
  \/ ProcessSlice
  \/ Resume
  \/ Finish
  \/ Fail
  \/ CallerReceive
  \/ Terminate

SpecCancel == Init /\ [][NextCancel]_vars

\* C21: after the caller terminates the analysis task, no further progress
\* or result of the in-flight analysis is delivered to the caller: its last
\* received progress snapshot stays what it was at termination, at every
\* later time.
C21_NothingAfterTerminate ==
  [][caller.terminated => (caller' = caller /\ posted' = posted)]_vars

\* the task was terminated with a snapshot delivered and a later snapshot
\* posted but not delivered
C21_Witness ==
  /\ caller.terminated
  /\ caller.progress.present
  /\ Len(caller.progress.rows) >= 1
  /\ caller.received < Len(posted)
  /\ posted[Len(posted)].type = "progress"

\* the analysis in hand has ended with 'result' after processing all of its
\* slices, at least 20
CompleteRunOf20 ==
  /\ ResultPosted
  /\ ELe(Num(ProgressDivisor), numSlices(request))
  /\ Num(Len(spectrumData)) = numSlices(request)

MaxLogSize == 4

\* the arrays: element i (0-based) is the complex number a * i + b
ReorderInputs ==
  {[x \in 1..(2 ^ e) |-> <<Num(a * (x - 1) + b), Num(0)>>] :
     e \in 1..MaxLogSize, a \in 0..3, b \in 0..3}

InitReorder ==
  /\ InitAnalysis
  /\ fftSize = FftSize
  /\ drawKind = "spectrum"
  /\ InitDrawTask
  /\ NoSession
  /\ signal = << >>
  /\ kernelOut = NotCalled
  /\ renderIn = NoRender
  /\ rectsOut = NotRendered
  /\ magnitudeIn = 0
  /\ colorOut = NoColor
  /\ \E arr \in ReorderInputs : reorder = [input |-> arr, output |-> arr, steps |-> 0]

\* the first loop of performFFT applied to the array, at most twice
ReorderStep ==
  /\ reorder.steps < 2
  /\ reorder' = [reorder EXCEPT
                   !.output = BitReverseLoop(reorder.output, 0, 0, Len(reorder.output)),
                   !.steps = @ + 1]
  /\ UNCHANGED <<analysisVars, drawVars, sessionVars, signal, kernelOut, renderIn, rectsOut,
                 magnitudeIn, colorOut>>

NextReorder == ReorderStep

SpecReorder == InitReorder /\ [][NextReorder]_vars

RECURSIVE ReversedBits(_, _)
\* the index whose binary representation on log2(n) bits is that of i reversed
ReversedBits(i, n) ==
  IF n <= 1 THEN 0 ELSE (i % 2) * (n \div 2) + ReversedBits(i \div 2, n \div 2)

\* number of elements of arr equal to v
Occurrences(arr, v) == Cardinality({x \in 1..Len(arr) : arr[x] = v})

\* C23: the reordering step of performFFT is the bit-reversal permutation:
\* for every power-of-two N >= 2 and every index i in [0, N), the element
\* that was at index i is, after the step, at the index whose log2(N)-bit
\* binary representation is that of i reversed; the step is its own inverse
\* and keeps the multiset of elements.
C23_BitReversal ==
  LET n == Len(reorder.input)
  IN /\ Len(reorder.output) = n
     /\ reorder.steps = 1 =>
          \A i \in 0..(n - 1) : reorder.output[ReversedBits(i, n) + 1] = reorder.input[i + 1]
     /\ reorder.steps = 2 => reorder.output = reorder.input
     /\ \A x \in 1..n :
          Occurrences(reorder.output, reorder.input[x])
            = Occurrences(reorder.input, reorder.input[x])

\* an array of 16 distinct elements after one step: index 1 and index 8
\* have exchanged their elements
C23_Witness ==
  /\ reorder.steps = 1
  /\ Len(reorder.input) = 16
  /\ \A x, y \in 1..16 : x # y => reorder.input[x] # reorder.input[y]
  /\ reorder.output[9] = reorder.input[2]
  /\ reorder.output[2] = reorder.input[9]

\* C24 as stated: in the Spectrum view, an analysis progress update with
\* progress < 100 never changes the displayed grid and sets the loading
\* flag; the grid is replaced from a progress update only when progress =
\* 100 and its partial data is non-empty, and only then does that path clear
\* the loading flag.
C24_Original ==
  [][\A p \in AnalysisProgresses :
       ProgressUpdate(p) =>
         /\ p.progress < 100 => (host'.data = host.data /\ host'.isLoading)
         /\ host'.data # host.data => ProgressCompletes(p)
         /\ ~host'.isLoading => ProgressCompletes(p)]_vars

\* C24 amended: an update with progress < 100 never changes the displayed
\* grid and sets the loading flag; the grid is replaced only when progress =
\* 100 and the partial data is non-empty, and is then the partial data;
\* every update with progress = 100 clears the loading flag, whether or not
\* it replaces the grid.
C24_ProgressEffect ==
  [][\A p \in AnalysisProgresses :
       ProgressUpdate(p) =>
         /\ p.progress < 100 => (host'.data = host.data /\ host'.isLoading)
         /\ host'.data = IF ProgressCompletes(p) THEN p.partialData ELSE host.data
         /\ p.progress = 100 => ~host'.isLoading]_vars

\* the mounted view shows a grid of two slices and is loading: only an
\* update with progress < 100 sets the flag of a mounted view
C24_Witness ==
  /\ drawKind = "spectrum"
  /\ host.mounted
  /\ host.isLoading
  /\ Len(host.data.rows) = 2
  /\ host.drawsPosted >= 1

(***************************************************************************)
(* Two requests at the analysis task                                       *)
(***************************************************************************)
\* the requests a second call of the listener is made with
SecondRequests ==
  {r \in YieldRequests :
     \/ r \in LongRequests /\ r.duration \in {Num(40), Num(120)}
     \/ r \notin LongRequests /\ r.channels = 1 /\ r.duration \in {Num(0), Num(3)}}

\* the listener is async and keeps no queue (lines 143-156): while the first
\* analysis is suspended at its yield (line 219) the listener is called with
\* the second request and starts analyzeSpectrum for it at once
SecondReceive(r) ==
  /\ pc = "yielded"
  /\ second.pc = "idle"
  /\ second' = [second EXCEPT !.pc = "running", !.request = r]
  /\ UNCHANGED <<analysisVars, drawVars, pureVars, caller, player>>

\* one iteration of the loop of the second analysis (lines 185-221); the
\* timer of its yield is queued behind the timer of the first analysis
SecondProcessSlice ==
  /\ second.pc = "running"
  /\ second.sliceIndex < MaxIter
  /\ \E o \in {SliceOutcome(second.request, second.sliceIndex, fftSize)} :
       /\ o.kind = "ok"
       /\ \E grid \in {Append(second.spectrumData, o.frame)} :
            \E due \in {ProgressDue(second.request, second.sliceIndex)} :
              /\ posted' = IF due
                           THEN Append(posted,
                                       ProgressMessage(second.request, second.sliceIndex, grid))
                           ELSE posted
              /\ second' = [second EXCEPT
                              !.spectrumData = grid,
                              !.sliceIndex = @ + 1,
                              !.posts = IF due THEN @ \cup {Len(posted) + 1} ELSE @,
                              !.pc = IF YieldDue(second.sliceIndex) THEN "yielded" ELSE "running",
                              !.firstAt = sliceIndex]
  /\ UNCHANGED <<pc, request, fftSize, sliceIndex, spectrumData, uncaught, callerData, sched,
                 drawVars, pureVars, caller, player>>

\* the timers of the two analyses fire in the order they were set: the
\* first analysis resumes unless it was suspended again after the second
ResumeFirst ==
  /\ second.pc \in {"idle", "done"} \/ (second.pc = "yielded" /\ sliceIndex = second.firstAt)
  /\ Resume

\* the timer of the second analysis fires (line 219)
SecondResume ==
  /\ second.pc = "yielded"
  /\ pc = "done" \/ (pc = "yielded" /\ sliceIndex > second.firstAt)
  /\ second' = [second EXCEPT !.pc = "running"]
  /\ UNCHANGED <<analysisVars, drawVars, pureVars, caller, player>>

\* the loop of the second analysis ends and its result is posted
\* (lines 185, 189-191, 224-227)
SecondFinish ==
  /\ second.pc = "running"
  /\ SliceOutcome(second.request, second.sliceIndex, fftSize).kind \in {"exit", "break"}
  /\ posted' = Append(posted, ResultMessage(second.spectrumData))
  /\ second' = [second EXCEPT !.pc = "done", !.posts = @ \cup {Len(posted) + 1}]
  /\ UNCHANGED <<pc, request, fftSize, sliceIndex, spectrumData, uncaught, callerData, sched,
                 drawVars, pureVars, caller, player>>

\* a fault leaves the second analysis and the listener posts 'error'
\* (lines 149-154)
SecondFail ==
  /\ second.pc = "running"
  /\ \E o \in {SliceOutcome(second.request, second.sliceIndex, fftSize)} :
       /\ o.kind = "throw"
       /\ posted' = Append(posted, ErrorMessage(o.err))
  /\ second' = [second EXCEPT !.pc = "done", !.posts = @ \cup {Len(posted) + 1}]
  /\ UNCHANGED <<pc, request, fftSize, sliceIndex, spectrumData, uncaught, callerData, sched,
                 drawVars, pureVars, caller, player>>

NextTwo ==
  \/ pc = "idle" /\ \E r \in YieldRequests : Receive(r)
  \/ ProcessSlice
  \/ ResumeFirst
  \/ Finish
  \/ Fail
  \/ \E r \in SecondRequests : SecondReceive(r)
  \/ SecondProcessSlice
  \/ SecondResume
  \/ SecondFinish
  \/ SecondFail

SpecTwo == Init /\ [][NextTwo]_vars

\* the messages of the first analysis, by their place in the sequence posted
FirstPosts == (1..Len(posted)) \ second.posts

\* C25: when a second 'analyzeSpectrum' request arrives while an analysis is
\* in progress, every message of the second analysis is posted after the
\* terminal message of the first: the messages of the two do not interleave
C25_OneAnalysisAtATime ==
  \A i \in second.posts :
    \E j \in FirstPosts : j < i /\ IsTerminal(posted[j])

(***************************************************************************)
(* A request that names more channels than it has buffers                  *)
(***************************************************************************)
\* slice i of the first channel buffer holds a sample; a slice that holds
\* one starts inside the buffer, so its index is below the buffer's length
SliceNonEmpty(r, i) ==
  /\ ELt(Num(i), numSlices(r))
  /\ Len(slice(r.audioData[1], startSample(r, i), endSample(r, i))) > 0

\* the request has buffers, fewer than its channel count, and a slice that
\* is not empty
MissingChannel(r) ==
  /\ r.type = "analyzeSpectrum"
  /\ Len(r.audioData) >= 1
  /\ r.channels > Len(r.audioData)
  /\ \E i \in 0..Len(r.audioData[1]) : SliceNonEmpty(r, i)

\* C26: when the channel count of the request exceeds the number of channel
\* buffers and a slice is not empty, the analysis posts no progress event
\* and no result, and it ends with exactly one 'error' event
C26_MissingChannelIsError ==
  (pc # "idle" /\ MissingChannel(request)) =>
    /\ \A k \in 1..Len(posted) : posted[k].type = "error"
    /\ Len(posted) <= 1
    /\ pc = "done" => Len(posted) = 1

\* an analysis of a request with one buffer and two channels has ended with
\* one 'error' event
C26_Witness ==
  /\ pc = "done"
  /\ MissingChannel(request)
  /\ request.channels = 2
  /\ posted = <<ErrorMessage("TypeError")>>

\* C27: a draw task posts 'canvasReady' only when it holds both the
\* transferred surface and a usable 2D context: a message answered with
\* 'canvasReady' leaves the task with a surface and a context, in the
\* spectrum draw task as in the waveform draw task
C27_ReadyMeansUsable ==
  \A k \in 1..Len(handled) :
    (\E i \in 1..Len(handled[k].posts) : handled[k].posts[i] = "canvasReady")
      => SurfaceAfter(k) = "held" /\ ContextAfter(k) = "ready"

(***************************************************************************)
(* The time axis of the host (part_005)                                    *)
(***************************************************************************)
\* the durations, in seconds, of the audio whose grid is drawn (positive)
Durations == {1, 3}

\* timeToPosition(time) (part_005 lines 264-271) for time = i * duration / n,
\* times n as the x of a rectangle is carried
timeToPosition(i, n, duration, containerWidth) ==
  IF duration <= 0 THEN PaddingConfig.left * n
  ELSE LET drawWidth == containerWidth - PaddingConfig.left - PaddingConfig.right
       IN PaddingConfig.left * n + i * drawWidth

\* C28: the host's time indicator and the drawn spectrogram use the same
\* time axis: for a grid of n slices of audio of a positive duration, column
\* i is placed at the x timeToPosition gives to time i * duration / n, and
\* the right edge of the last column is at timeToPosition(duration), for the
\* same width and padding
C28_SameTimeAxis ==
  rectsOut.done =>
    \A duration \in Durations :
      \A rect \in rectsOut.rects :
        LET n == Len(renderIn.spectrumData)
        IN /\ rect.x = timeToPosition(rect.timeIdx, n, duration, renderIn.width)
           /\ rect.timeIdx = n - 1
                => rect.x + rect.w = timeToPosition(n, n, duration, renderIn.width)

\* C29: in the Waveform component waveformDrawn is true and isLoading is
\* false only when no draw request is outstanding: every 'draw' message
\* posted so far has been handled by the draw task and answered with
\* 'drawComplete', and the host has received the answer
C29_FlagsMeanNothingOutstanding ==
  (drawKind = "waveform" /\ host.waveformDrawn /\ ~host.isLoading) =>
    /\ \A i \in 1..Len(toTask) : toTask[i].type # "draw"
    /\ \A k \in 1..Len(handled) :
         handled[k].msg.type = "draw" => handled[k].posts = <<"drawComplete">>
    /\ \A i \in 1..Len(toHost) : toHost[i].re # "draw"

(***************************************************************************)
(* The player of the App component (audioProcessor.ts lines 131-253)       *)
(***************************************************************************)
\* the latest reading of audioContext.currentTime, in seconds
MaxClock == 4

\* durations of the decoded audio, in seconds
PlayerDurations == {2, 4}

\* positions the user seeks to
SeekTimes == 0..3

\* handlePlayPause (lines 192-214) on player p; seen is audioState.isPlaying
\* as the closure of the callback captured it
handlePlayPause(p, seen) ==
  IF ~p.loaded THEN p
  ELSE IF seen
  THEN [p EXCEPT !.hasContext = TRUE,
                 !.source = NoSource,
                 !.pauseTime = p.clock - p.startTime,
                 !.isPlaying = FALSE]
  ELSE [p EXCEPT !.hasContext = TRUE,
                 !.source = [live |-> TRUE, offset |-> p.pauseTime],
                 !.startTime = p.clock - p.pauseTime,
                 !.isPlaying = TRUE]

\* handleSeek(time) (lines 216-231); both calls of handlePlayPause are calls
\* of the callback of the same render, which captured the same isPlaying
handleSeek(p, time, seen) ==
  IF ~p.loaded THEN p
  ELSE LET moved == [p EXCEPT !.source = NoSource,
                              !.pauseTime = time,
                              !.currentTime = time]
       IN IF seen THEN handlePlayPause(handlePlayPause(moved, seen), seen) ELSE moved

\* handleFileSelect (lines 174-190) when the file is decoded
FileSelected(d) ==
  /\ ~player.loaded
  /\ player' = [player EXCEPT !.loaded = TRUE, !.duration = d]
  /\ UNCHANGED <<analysisVars, drawVars, pureVars, caller, second>>

\* the play button: the callback of the latest render is called
PlayPause ==
  /\ player.loaded
  /\ player' = handlePlayPause(player, player.isPlaying)
  /\ UNCHANGED <<analysisVars, drawVars, pureVars, caller, second>>

\* the user seeks: the callback of the latest render is called
Seek(time) ==
  /\ player.loaded
  /\ player' = handleSeek(player, time, player.isPlaying)
  /\ UNCHANGED <<analysisVars, drawVars, pureVars, caller, second>>

\* the clock of the audio context advances
Tick ==
  /\ player.hasContext
  /\ player.clock < MaxClock
  /\ player' = [player EXCEPT !.clock = @ + 1]
  /\ UNCHANGED <<analysisVars, drawVars, pureVars, caller, second>>

\* updateTime, the animation frame callback (lines 235-248)
UpdateTime ==
  /\ player.isPlaying
  /\ player.hasContext
  /\ LET currentTime == player.clock - player.startTime
     IN player' =
          IF currentTime >= player.duration
          THEN [handlePlayPause(player, player.isPlaying) EXCEPT
                  !.currentTime = 0, !.pauseTime = 0]
          ELSE [player EXCEPT !.currentTime = currentTime]
  /\ player' # player
  /\ UNCHANGED <<analysisVars, drawVars, pureVars, caller, second>>

NextPlayer ==
  \/ \E d \in PlayerDurations : FileSelected(d)
  \/ PlayPause
  \/ \E time \in SeekTimes : Seek(time)
  \/ Tick
  \/ UpdateTime

SpecPlayer == Init /\ [][NextPlayer]_vars

\* C30: a seek to time t issued while playback is running leaves the player
\* playing from t: after handleSeek(t) with isPlaying true, isPlaying is
\* still true, a source node is started at offset t, and the stored pause
\* position is t
C30_SeekKeepsPlaying ==
  [][\A time \in SeekTimes :
       (player.loaded /\ player.isPlaying /\ player' = handleSeek(player, time, TRUE))
         => /\ player'.isPlaying
            /\ player'.source = [live |-> TRUE, offset |-> time]
            /\ player'.pauseTime = time]_vars

====
